---- MODULE Spec2Model ----
(***************************************************************************)
(* A model of the consistent-hash ring of src/consistent.go: the position  *)
(* table (circle), the membership set (members), the sorted cache of       *)
(* occupied positions (sortedHashes), the node count (count) and the       *)
(* replica setting (NumberOfReplicas), with the mutators Add, Remove, Set  *)
(* and the queries Members, Get, GetTwo, GetN.                             *)
(*                                                                         *)
(* Spec takes each call as one step of a sequential caller. SpecRW runs    *)
(* the same code statement by statement, one writer thread and several     *)
(* reader threads under the RWMutex, and follows the capacity of the       *)
(* sortedHashes storage.                                                   *)
(*                                                                         *)
(* A uint32 is the pair <<hi, lo>> of its two 16-bit halves (the value is  *)
(* hi * 65536 + lo), compared lexicographically: TLC's integers are 32-bit *)
(* signed and cannot hold the upper half of the uint32 range.              *)
(* A string is the sequence of its bytes.                                  *)
(***************************************************************************)
EXTENDS Integers, Sequences, FiniteSets, TLC

\* ------------------------------------------------------------------ bounds

\* NumberOfReplicas is set by the caller to 1..MaxReplicas before the first Add.
MaxReplicas == 2
\* The mutators are not called once |count| would pass MaxCount.
MaxCount == 3
\* Set is called with lists of at most MaxSetLen handles.
MaxSetLen == 2
\* GetN is called with n in 0..MaxN.
MaxN == 2

\* ------------------------------------------------------- handles and strings

\* The node handles the caller owns; each is written as the string its Name()
\* returns. The replica keys "0sPdNr" and "0hX1dc6" have the same CRC-32
\* (0x5FE80654); no other two replica keys of these nodes collide.
Nodes == {"cacheA", "cacheB", "sPdNr", "hX1dc6"}

\* The nil interface value.
Nil == "nil"

\* element.Name(), as bytes.
Name(element) ==
    CASE element = "cacheA" -> <<99, 97, 99, 104, 101, 65>>
      [] element = "cacheB" -> <<99, 97, 99, 104, 101, 66>>
      [] element = "sPdNr" -> <<115, 80, 100, 78, 114>>
      [] element = "hX1dc6" -> <<104, 88, 49, 100, 99, 54>>

\* The names queried: "c" hashes below every replica position of Nodes,
\* "user:42" between two of them, and "0cacheA" is itself a replica key, so it
\* hashes exactly onto an occupied position when cacheA is added.
Keys ==
    { <<99>>, <<117, 115, 101, 114, 58, 52, 50>>,
      <<48, 99, 97, 99, 104, 101, 65>> }

\* strconv.Itoa for index >= 0, as bytes.
RECURSIVE Itoa(_)
Itoa(index) ==
    IF index < 10 THEN <<48 + index>>
    ELSE Itoa(index \div 10) \o <<48 + (index % 10)>>

\* elementKey generates a string key for an element with an index.
elementKey(element, index) == Itoa(index) \o Name(element)

\* ------------------------------------------------------------------ CRC-32

\* Bitwise exclusive or of two naturals.
RECURSIVE Xor(_, _)
Xor(a, b) ==
    IF a = 0 THEN b
    ELSE IF b = 0 THEN a
    ELSE ((a + b) % 2) + 2 * Xor(a \div 2, b \div 2)

\* One bit of the reflected CRC-32 (polynomial 0xEDB88320): shift right by
\* one, and xor the polynomial in when the bit shifted out was set.
CrcBit(crc) ==
    LET hi == crc[1] \div 2
        lo == (crc[2] \div 2) + (crc[1] % 2) * 32768
    IN  IF crc[2] % 2 = 1 THEN <<Xor(hi, 60856), Xor(lo, 33568)>>
        ELSE <<hi, lo>>

\* The CRC register after one more byte.
CrcByte(crc, byte) ==
    CrcBit(CrcBit(CrcBit(CrcBit(CrcBit(CrcBit(CrcBit(CrcBit(
        <<crc[1], Xor(crc[2], byte)>>))))))))

\* The CRC register after bytes[i..]. (The test of next[1] makes the register
\* a value before the next byte is read; it is always true.)
RECURSIVE CrcUpdate(_, _, _)
CrcUpdate(crc, bytes, i) ==
    IF i > Len(bytes) THEN crc
    ELSE LET next == CrcByte(crc, bytes[i])
         IN  IF next[1] >= 0 THEN CrcUpdate(next, bytes, i + 1) ELSE crc

\* crc32.ChecksumIEEE: the register starts at and is finally xored with
\* 0xFFFFFFFF.
ChecksumIEEE(bytes) ==
    LET crc == CrcUpdate(<<65535, 65535>>, bytes, 1)
    IN  <<65535 - crc[1], 65535 - crc[2]>>

\* The checksums of the strings the model hashes, computed once.
Checksums ==
    LET strings == Keys \cup { elementKey(e, i) :
                                  e \in Nodes, i \in 0 .. (MaxReplicas - 1) }
    IN  { <<s, ChecksumIEEE(s)>> : s \in strings }

\* hashKey: both branches checksum exactly the bytes of the key.
hashKey(key) ==
    IF \E p \in Checksums : p[1] = key
    THEN (CHOOSE p \in Checksums : p[1] = key)[2]
    ELSE IF Len(key) < 64 THEN ChecksumIEEE(SubSeq(key, 1, Len(key)))
    ELSE ChecksumIEEE(key)

\* ---------------------------------------------------------------- uints

\* Less returns true if element i is less than element j (uint32 order).
Less(x, y) == x[1] < y[1] \/ (x[1] = y[1] /\ x[2] < y[2])

\* x > y on uint32.
Gt(x, y) == x[1] > y[1] \/ (x[1] = y[1] /\ x[2] > y[2])

\* The 0-based element i of a slice.
At(s, i) == s[i + 1]

\* sort.Sort(hashes): insertion of each element before the first greater one.
RECURSIVE Insert(_, _, _)
Insert(sorted, x, i) ==
    IF i > Len(sorted) THEN Append(sorted, x)
    ELSE IF Less(x, sorted[i])
         THEN SubSeq(sorted, 1, i - 1) \o <<x>> \o SubSeq(sorted, i, Len(sorted))
         ELSE Insert(sorted, x, i + 1)

RECURSIVE Sort(_, _)
Sort(hashes, sorted) ==
    IF hashes = {} THEN sorted
    ELSE LET k == CHOOSE k \in hashes : TRUE
         IN  Sort(hashes \ {k}, Insert(sorted, k, 1))

\* ------------------------------------------------------------ the ring

\* The fields of a Consistent object c: c.circle is a function from the
\* occupied positions to handles, c.members a set of handles (the keys of the
\* members map), c.sortedHashes a sequence of positions.

\* The default setting of 20 replicas for each entry.
DefaultReplicas == 20

\* New creates a new Consistent object with the default setting.
New ==
    [circle |-> [p \in {} |-> Nil], members |-> {}, sortedHashes |-> <<>>,
     NumberOfReplicas |-> DefaultReplicas, count |-> 0]

\* updateSortedHashes with a slip: the greatest position is left out.
updateSortedHashesDropsLast(c) ==
    LET hashes == Sort(DOMAIN c.circle, <<>>)
    IN  [c EXCEPT !.sortedHashes = SubSeq(hashes, 1, Len(hashes) - 1)]

\* updateSortedHashes: the keys of the circle, in any iteration order, sorted.
updateSortedHashes(c) ==
    [c EXCEPT !.sortedHashes = Sort(DOMAIN c.circle, <<>>)]

\* c.circle[pos] = element
Put(circ, pos, element) ==
    [p \in DOMAIN circ \cup {pos} |-> IF p = pos THEN element ELSE circ[p]]

\* c.circle[pos] read: the zero value (nil) when pos is not a key of the map.
Lookup(circ, pos) == IF pos \in DOMAIN circ THEN circ[pos] ELSE Nil

\* delete(c.circle, pos)
Delete(circ, pos) == [p \in DOMAIN circ \ {pos} |-> circ[p]]

\* The replica loop of add with a slip: it stops one replica early.
RECURSIVE addLoopStopsEarly(_, _, _, _)
addLoopStopsEarly(circ, element, i, replicas) ==
    IF i < replicas - 1
    THEN addLoopStopsEarly(Put(circ, hashKey(elementKey(element, i)), element),
                           element, i + 1, replicas)
    ELSE circ

\* The replica loop of add, from index i on.
RECURSIVE addLoop(_, _, _, _)
addLoop(circ, element, i, replicas) ==
    IF i < replicas
    THEN addLoop(Put(circ, hashKey(elementKey(element, i)), element),
                 element, i + 1, replicas)
    ELSE circ

\* add with a slip: the sorted cache is not rebuilt.
addKeepsCache(c, element) ==
    [c EXCEPT !.circle = addLoop(c.circle, element, 0, c.NumberOfReplicas),
              !.members = c.members \cup {element},
              !.count = c.count + 1]

\* add with a slip: the handle is not put in the members map.
addForgetsMember(c, element) ==
    LET c1 == [c EXCEPT !.circle = addLoop(c.circle, element, 0, c.NumberOfReplicas)]
        c2 == updateSortedHashes(c1)
    IN  [c2 EXCEPT !.count = c.count + 1]

\* add: need c.Lock() before calling.
add(c, element) ==
    LET c1 == [c EXCEPT !.circle = addLoop(c.circle, element, 0, c.NumberOfReplicas),
                        !.members = c.members \cup {element}]
        c2 == updateSortedHashes(c1)
    IN  [c2 EXCEPT !.count = c.count + 1]

\* The replica loop of remove, from index i on.
RECURSIVE removeLoop(_, _, _, _)
removeLoop(circ, element, i, replicas) ==
    IF i < replicas
    THEN removeLoop(Delete(circ, hashKey(elementKey(element, i))),
                    element, i + 1, replicas)
    ELSE circ

\* remove with a slip: the handle stays in the members map.
removeKeepsMember(c, element) ==
    LET c1 == [c EXCEPT !.circle = removeLoop(c.circle, element, 0, c.NumberOfReplicas)]
        c2 == updateSortedHashes(c1)
    IN  [c2 EXCEPT !.count = c.count - 1]

\* remove with a slip: the last replica stays in the circle.
removeKeepsLastReplica(c, element) ==
    LET c1 == [c EXCEPT !.circle = removeLoop(c.circle, element, 0, c.NumberOfReplicas - 1),
                        !.members = c.members \ {element}]
        c2 == updateSortedHashes(c1)
    IN  [c2 EXCEPT !.count = c.count - 1]

\* remove with a slip: the count is left as it is.
removeKeepsCount(c, element) ==
    LET c1 == [c EXCEPT !.circle = removeLoop(c.circle, element, 0, c.NumberOfReplicas),
                        !.members = c.members \ {element}]
    IN  updateSortedHashes(c1)

\* remove: need c.Lock() before calling.
remove(c, element) ==
    LET c1 == [c EXCEPT !.circle = removeLoop(c.circle, element, 0, c.NumberOfReplicas),
                        !.members = c.members \ {element}]
        c2 == updateSortedHashes(c1)
    IN  [c2 EXCEPT !.count = c.count - 1]

\* Whether the handle k is in the list elements.
found(k, elements) == \E j \in 1 .. Len(elements) : elements[j] = k

\* The first loop of Set with a slip: nothing is removed.
setRemoveLoopSkipped(c, todo, elements) == c

\* The first loop of Set: every member that is not in elements is removed.
\* The members are visited in the map's iteration order, which is any order;
\* todo holds the members not visited yet.
RECURSIVE setRemoveLoop(_, _, _)
setRemoveLoop(c, todo, elements) ==
    IF todo = {} THEN c
    ELSE LET k == CHOOSE k \in todo : TRUE
         IN  setRemoveLoop(IF found(k, elements) THEN c ELSE remove(c, k),
                           todo \ {k}, elements)

\* The second loop of Set, from the list index j on: every listed handle that
\* is not a member is added.
RECURSIVE setAddLoop(_, _, _)
setAddLoop(c, elements, j) ==
    IF j > Len(elements) THEN c
    ELSE setAddLoop(IF elements[j] \in c.members THEN c ELSE add(c, elements[j]),
                    elements, j + 1)

\* Set sets all the elements in the hash.
setLoops(c, elements) ==
    setAddLoop(setRemoveLoop(c, c.members, elements), elements, 1)

\* Members: the handles of the members map (returned in any order).
Members(c) == c.members

\* ------------------------------------------------------------- queries

\* ErrEmptyCircle is the error returned when trying to get an element when
\* nothing has been added to hash.
ErrEmptyCircle == "empty circle"

\* How a call ends: it returns, it panics, or it never returns.
Returns == "returns"
Panics == "panics"
Never == "never returns"

\* The search with a slip: f(x) = sortedHashes[x] >= key.
RECURSIVE SearchLoopAtOrAfter(_, _, _, _)
SearchLoopAtOrAfter(sortedHashes, key, i, j) ==
    IF i < j
    THEN LET h == (i + j) \div 2
         IN  IF ~(Gt(At(sortedHashes, h), key) \/ At(sortedHashes, h) = key)
             THEN SearchLoopAtOrAfter(sortedHashes, key, h + 1, j)
             ELSE SearchLoopAtOrAfter(sortedHashes, key, i, h)
    ELSE i

\* sort.Search(n, f) with f(x) = sortedHashes[x] > key: binary search on [i, j).
RECURSIVE SearchLoop(_, _, _, _)
SearchLoop(sortedHashes, key, i, j) ==
    IF i < j
    THEN LET h == (i + j) \div 2
         IN  IF ~Gt(At(sortedHashes, h), key)
             THEN SearchLoop(sortedHashes, key, h + 1, j)
             ELSE SearchLoop(sortedHashes, key, i, h)
    ELSE i

search(c, key) ==
    LET i == SearchLoop(c.sortedHashes, key, 0, Len(c.sortedHashes))
    IN  IF i >= Len(c.sortedHashes) THEN 0 ELSE i

\* Get returns an element close to where name hashes to in the circle.
\* c.sortedHashes[i] panics when i is out of range.
Get(c, name) ==
    IF Cardinality(DOMAIN c.circle) = 0
    THEN [ends |-> Returns, elem |-> Nil, err |-> ErrEmptyCircle]
    ELSE LET key == hashKey(name)
             i == search(c, key)
         IN  IF i >= Len(c.sortedHashes)
             THEN [ends |-> Panics, elem |-> Nil, err |-> Nil]
             ELSE [ends |-> Returns,
                   elem |-> Lookup(c.circle, At(c.sortedHashes, i)),
                   err |-> Nil]

\* The loop of GetTwo, at its condition i != start, with b as assigned so far.
\* visited holds the values i had at the condition before: the loop reads
\* nothing but i and the ring, so a value of i seen twice is seen forever.
RECURSIVE twoLoop(_, _, _, _, _, _)
twoLoop(c, a, start, i, b, visited) ==
    IF i = start THEN [ends |-> Returns, b |-> b]
    ELSE IF i \in visited THEN [ends |-> Never, b |-> b]
    ELSE LET i1 == IF i >= Len(c.sortedHashes) THEN 0 ELSE i
             b1 == Lookup(c.circle, At(c.sortedHashes, i1))
         IN  IF b1 # a THEN [ends |-> Returns, b |-> b1]
             ELSE twoLoop(c, a, start, i1 + 1, b1, visited \cup {i})

\* GetTwo returns the two closest distinct elements to the name input in the
\* circle.
GetTwo(c, name) ==
    IF Cardinality(DOMAIN c.circle) = 0
    THEN [ends |-> Returns, a |-> Nil, b |-> Nil, err |-> ErrEmptyCircle]
    ELSE LET key == hashKey(name)
             i == search(c, key)
         IN  IF i >= Len(c.sortedHashes)
             THEN [ends |-> Panics, a |-> Nil, b |-> Nil, err |-> Nil]
             ELSE LET a == Lookup(c.circle, At(c.sortedHashes, i))
                  IN  IF c.count = 1
                      THEN [ends |-> Returns, a |-> a, b |-> Nil, err |-> Nil]
                      ELSE LET w == twoLoop(c, a, i, i + 1, Nil, {})
                           IN  [ends |-> w.ends, a |-> a, b |-> w.b, err |-> Nil]

\* sliceContainsMember
sliceContainsMember(list, member) ==
    \E j \in 1 .. Len(list) : list[j] = member

\* The loop of GetN, at its condition i != start. visited holds the pairs of
\* i and len(res) the loop had at the condition before.
RECURSIVE nLoop(_, _, _, _, _, _)
nLoop(c, n, start, i, res, visited) ==
    IF i = start THEN [ends |-> Returns, res |-> res]
    ELSE IF <<i, Len(res)>> \in visited THEN [ends |-> Never, res |-> res]
    ELSE LET i1 == IF i >= Len(c.sortedHashes) THEN 0 ELSE i
             elem == Lookup(c.circle, At(c.sortedHashes, i1))
             res1 == IF ~sliceContainsMember(res, elem)
                     THEN Append(res, elem) ELSE res
         IN  IF Len(res1) = n THEN [ends |-> Returns, res |-> res1]
             ELSE nLoop(c, n, start, i1 + 1, res1,
                        visited \cup {<<i, Len(res)>>})

\* GetN returns the N closest distinct elements to the name input in the
\* circle. make([]T, 0, n) panics when n is negative.
GetN(c, name, n0) ==
    IF Cardinality(DOMAIN c.circle) = 0
    THEN [ends |-> Returns, res |-> <<>>, err |-> ErrEmptyCircle]
    ELSE LET n == IF c.count < n0 THEN c.count ELSE n0
             key == hashKey(name)
             i == search(c, key)
         IN  IF n < 0 \/ i >= Len(c.sortedHashes)
             THEN [ends |-> Panics, res |-> <<>>, err |-> Nil]
             ELSE LET res == <<Lookup(c.circle, At(c.sortedHashes, i))>>
                  IN  IF Len(res) = n
                      THEN [ends |-> Returns, res |-> res, err |-> Nil]
                      ELSE LET w == nLoop(c, n, i, i + 1, res, {})
                           IN  [ends |-> w.ends, res |-> w.res, err |-> Nil]

\* ------------------------------------------------------- the state machine

VARIABLES
    circle,            \* c.circle: position -> handle
    members,           \* c.members: the set of registered handles
    sortedHashes,      \* c.sortedHashes: the occupied positions, ascending
    NumberOfReplicas,  \* c.NumberOfReplicas
    count,             \* c.count
    handles,           \* the node handles the caller owns and passes to the ring
    ret,               \* history: the last call, its arguments and what it returned
    mutex,             \* c.RWMutex: whether it is write-locked, and the threads read-holding it
    writer,            \* the writer thread: its call, its locals and the line it is at
    reader,            \* each reader thread: its call, the line it is at, what it got
    capacity,          \* cap(c.sortedHashes)
    before             \* history: the ring when the writer took the lock

vars ==
    <<circle, members, sortedHashes, NumberOfReplicas, count, handles, ret,
      mutex, writer, reader, capacity, before>>

\* What only SpecRW follows. Under Spec a call is one step, no thread is ever
\* inside a call, and the capacity (which no result depends on) is left out.
threads == <<mutex, writer, reader, capacity, before>>

\* The reader threads.
Readers == {"r1", "r2"}

\* No thread has called yet; new(Consistent) leaves sortedHashes nil.
NoCalls ==
    /\ mutex = [w |-> FALSE, r |-> {}]
    /\ writer = [pc |-> "idle"]
    /\ reader = [r \in Readers |-> [pc |-> "idle"]]
    /\ capacity = 0
    /\ before = Nil

\* The Consistent object in the current state.
Self ==
    [circle |-> circle, members |-> members, sortedHashes |-> sortedHashes,
     NumberOfReplicas |-> NumberOfReplicas, count |-> count]

\* The object's fields become those of c.
Becomes(c) ==
    /\ circle' = c.circle
    /\ members' = c.members
    /\ sortedHashes' = c.sortedHashes
    /\ NumberOfReplicas' = c.NumberOfReplicas
    /\ count' = c.count

\* The caller owns all of Nodes, or only the three of them that have no
\* replica position in common.
Owned == { Nodes, Nodes \ {"hX1dc6"} }

\* The lists of handles Set is called with.
Lists == UNION { [1 .. n -> handles] : n \in 0 .. MaxSetLen }

\* The handles of a list.
Handles(elements) == { elements[j] : j \in 1 .. Len(elements) }

\* c := New(), and then c.NumberOfReplicas = replicas: "To change the number
\* of replicas, set NumberOfReplicas before adding entries."
Init ==
    /\ \E replicas \in 1 .. MaxReplicas :
         LET c == [New EXCEPT !.NumberOfReplicas = replicas]
         IN  /\ circle = c.circle
             /\ members = c.members
             /\ sortedHashes = c.sortedHashes
             /\ NumberOfReplicas = c.NumberOfReplicas
             /\ count = c.count
    /\ handles \in Owned
    /\ ret = [op |-> "New"]
    /\ NoCalls

\* Add inserts a string element in the consistent hash (under the write lock).
Add(element) ==
    /\ count < MaxCount
    /\ Becomes(add(Self, element))
    /\ UNCHANGED handles
    /\ UNCHANGED threads
    /\ ret' = [op |-> "Add", element |-> element]

\* Remove removes an element from the hash (under the write lock).
Remove(element) ==
    /\ count > -MaxCount
    /\ Becomes(remove(Self, element))
    /\ UNCHANGED handles
    /\ UNCHANGED threads
    /\ ret' = [op |-> "Remove", element |-> element]

\* Set sets all the elements in the hash (under the write lock).
Set(elements) ==
    LET c == setLoops(Self, elements)
    IN  /\ c.count \in -MaxCount .. MaxCount
        /\ Becomes(c)
        /\ UNCHANGED handles
        /\ UNCHANGED threads
        /\ ret' = [op |-> "Set", elements |-> elements]

\* Members (under the read lock).
CallMembers ==
    /\ ret' = [op |-> "Members", out |-> Members(Self)]
    /\ UNCHANGED <<circle, members, sortedHashes, NumberOfReplicas, count, handles>>
    /\ UNCHANGED threads

\* Get (under the read lock).
CallGet(name) ==
    /\ ret' = [op |-> "Get", name |-> name, out |-> Get(Self, name)]
    /\ UNCHANGED <<circle, members, sortedHashes, NumberOfReplicas, count, handles>>
    /\ UNCHANGED threads

\* GetTwo (under the read lock).
CallGetTwo(name) ==
    /\ ret' = [op |-> "GetTwo", name |-> name, out |-> GetTwo(Self, name)]
    /\ UNCHANGED <<circle, members, sortedHashes, NumberOfReplicas, count, handles>>
    /\ UNCHANGED threads

\* GetN (under the read lock).
CallGetN(name, n) ==
    /\ ret' = [op |-> "GetN", name |-> name, n |-> n, out |-> GetN(Self, name, n)]
    /\ UNCHANGED <<circle, members, sortedHashes, NumberOfReplicas, count, handles>>
    /\ UNCHANGED threads

Next ==
    \/ \E element \in handles : Add(element)
    \/ \E element \in handles : Remove(element)
    \/ \E elements \in Lists : Set(elements)
    \/ CallMembers
    \/ \E name \in Keys : CallGet(name)
    \/ \E name \in Keys : CallGetTwo(name)
    \/ \E name \in Keys, n \in 0 .. MaxN : CallGetN(name, n)

Spec == Init /\ [][Next]_vars

\* --------------------------------------------- the storage of sortedHashes

\* The test of updateSortedHashes: "reallocate if we're holding on to too
\* much (1/4th)".
Reallocates(c, cap) ==
    cap \div (c.NumberOfReplicas * 4) > Cardinality(DOMAIN c.circle)

\* The capacity append gives a slice that is full at capacity cap (the gc
\* runtime, for fewer than 256 elements of 4 bytes: 2, then the double).
growslice(cap) == IF cap = 0 THEN 2 ELSE 2 * cap

\* The capacity after the appends that take a slice from length len to n.
RECURSIVE appendCap(_, _, _)
appendCap(cap, len, n) ==
    IF len >= n THEN cap
    ELSE appendCap(IF len < cap THEN cap ELSE growslice(cap), len + 1, n)

\* updateSortedHashes with a slip: hashes := c.sortedHashes, the old length kept.
updateSortedHashesKeepsLength(c, cap) ==
    LET fresh == Reallocates(c, cap)
        hashes == IF fresh THEN <<>> ELSE c.sortedHashes
        n == Len(hashes) + Cardinality(DOMAIN c.circle)
    IN  [sortedHashes |-> Sort(DOMAIN c.circle, hashes),
         capacity |-> appendCap(IF fresh THEN 0 ELSE cap, Len(hashes), n),
         how |-> IF fresh THEN "reallocated"
                 ELSE IF n <= cap THEN "in place" ELSE "grown"]

\* updateSortedHashes on a storage of capacity cap: hashes is the old storage
\* cut to length 0, or nil when the test says to reallocate; every key of the
\* circle is appended, and the slice is sorted. how tells what became of the
\* storage: left for a new one, filled in place, or outgrown by the appends.
updateSortedHashesStorage(c, cap) ==
    LET fresh == Reallocates(c, cap)
        hashes == IF fresh THEN <<>> ELSE SubSeq(c.sortedHashes, 1, 0)
        n == Len(hashes) + Cardinality(DOMAIN c.circle)
    IN  [sortedHashes |-> Sort(DOMAIN c.circle, hashes),
         capacity |-> appendCap(IF fresh THEN 0 ELSE cap, Len(hashes), n),
         how |-> IF fresh THEN "reallocated"
                 ELSE IF n <= cap THEN "in place" ELSE "grown"]

\* ------------------------------------------ the threads under the RWMutex

\* The callers of SpecRW own the three handles that have no replica position
\* in common, or the two that have one.
OwnedRW == { Nodes \ {"hX1dc6"}, {"sPdNr", "hX1dc6"} }

InitRW ==
    /\ \E replicas \in 1 .. MaxReplicas :
         LET c == [New EXCEPT !.NumberOfReplicas = replicas]
         IN  /\ circle = c.circle
             /\ members = c.members
             /\ sortedHashes = c.sortedHashes
             /\ NumberOfReplicas = c.NumberOfReplicas
             /\ count = c.count
    /\ handles \in OwnedRW
    /\ ret = [op |-> "New"]
    /\ NoCalls

\* The writer's locals when its call has taken the lock: the call (op, arg),
\* the line it is at, the element add or remove works on and its replica
\* index i, the members Set has still to range over, the index j of Set's
\* second loop; rebuilds is history, what became of the storage in this call.
Frame(op, arg, pc, el, todo) ==
    [pc |-> pc, op |-> op, arg |-> arg, el |-> el, i |-> 0, todo |-> todo,
     j |-> 1, rebuilds |-> {}]

\* c.Lock(): taken when no thread holds the mutex.
Lock ==
    /\ writer.pc = "idle"
    /\ ~mutex.w
    /\ mutex.r = {}
    /\ mutex' = [mutex EXCEPT !.w = TRUE]
    /\ before' = Self

\* What the steps of a mutator leave alone.
UnderLock == UNCHANGED <<handles, ret, mutex, reader, before>>

\* Add, lines 76-78: the lock is taken and add is called.
AddLock(element) ==
    /\ Lock
    /\ count < MaxCount
    /\ writer' = Frame("Add", element, "add:83", element, {})
    /\ UNCHANGED <<circle, members, sortedHashes, NumberOfReplicas, count>>
    /\ UNCHANGED <<handles, ret, reader, capacity>>

\* Remove, lines 93-95: the lock is taken and remove is called.
RemoveLock(element) ==
    /\ Lock
    /\ count > -MaxCount
    /\ writer' = Frame("Remove", element, "remove:100", element, {})
    /\ UNCHANGED <<circle, members, sortedHashes, NumberOfReplicas, count>>
    /\ UNCHANGED <<handles, ret, reader, capacity>>

\* Set, lines 111-113: the lock is taken and the range over c.members starts.
SetLock(elements) ==
    /\ Lock
    /\ setLoops(Self, elements).count \in -MaxCount .. MaxCount
    /\ writer' = Frame("Set", elements, "Set:113", Nil, members)
    /\ UNCHANGED <<circle, members, sortedHashes, NumberOfReplicas, count>>
    /\ UNCHANGED <<handles, ret, reader, capacity>>

\* add, lines 83-85: one turn of the replica loop.
addReplica ==
    /\ writer.pc = "add:83"
    /\ circle' = Put(circle, hashKey(elementKey(writer.el, writer.i)), writer.el)
    /\ writer' = [writer EXCEPT !.i = @ + 1,
                                !.pc = IF writer.i + 1 < NumberOfReplicas
                                       THEN "add:83" ELSE "add:86"]
    /\ UNCHANGED <<members, sortedHashes, NumberOfReplicas, count, capacity>>
    /\ UnderLock

\* add, line 86.
addMember ==
    /\ writer.pc = "add:86"
    /\ members' = members \cup {writer.el}
    /\ writer' = [writer EXCEPT !.pc = "add:87"]
    /\ UNCHANGED <<circle, sortedHashes, NumberOfReplicas, count, capacity>>
    /\ UnderLock

\* add, line 87.
addUpdateSortedHashes ==
    /\ writer.pc = "add:87"
    /\ LET u == updateSortedHashesStorage(Self, capacity)
       IN  /\ sortedHashes' = u.sortedHashes
           /\ capacity' = u.capacity
           /\ writer' = [writer EXCEPT !.pc = "add:88",
                                       !.rebuilds = @ \cup {u.how}]
    /\ UNCHANGED <<circle, members, NumberOfReplicas, count>>
    /\ UnderLock

\* add, line 88, and the return: to Add's deferred Unlock, or to the next
\* element of Set's second loop.
addCount ==
    /\ writer.pc = "add:88"
    /\ count' = count + 1
    /\ writer' = IF writer.op = "Add" THEN [writer EXCEPT !.pc = "Unlock"]
                 ELSE [writer EXCEPT !.pc = "Set:125", !.j = @ + 1]
    /\ UNCHANGED <<circle, members, sortedHashes, NumberOfReplicas, capacity>>
    /\ UnderLock

\* remove, lines 100-102: one turn of the replica loop.
removeReplica ==
    /\ writer.pc = "remove:100"
    /\ circle' = Delete(circle, hashKey(elementKey(writer.el, writer.i)))
    /\ writer' = [writer EXCEPT !.i = @ + 1,
                                !.pc = IF writer.i + 1 < NumberOfReplicas
                                       THEN "remove:100" ELSE "remove:103"]
    /\ UNCHANGED <<members, sortedHashes, NumberOfReplicas, count, capacity>>
    /\ UnderLock

\* remove, line 103.
removeMember ==
    /\ writer.pc = "remove:103"
    /\ members' = members \ {writer.el}
    /\ writer' = [writer EXCEPT !.pc = "remove:104"]
    /\ UNCHANGED <<circle, sortedHashes, NumberOfReplicas, count, capacity>>
    /\ UnderLock

\* remove, line 104.
removeUpdateSortedHashes ==
    /\ writer.pc = "remove:104"
    /\ LET u == updateSortedHashesStorage(Self, capacity)
       IN  /\ sortedHashes' = u.sortedHashes
           /\ capacity' = u.capacity
           /\ writer' = [writer EXCEPT !.pc = "remove:105",
                                       !.rebuilds = @ \cup {u.how}]
    /\ UNCHANGED <<circle, members, NumberOfReplicas, count>>
    /\ UnderLock

\* remove, line 105, and the return: to Remove's deferred Unlock, or to the
\* range of Set's first loop.
removeCount ==
    /\ writer.pc = "remove:105"
    /\ count' = count - 1
    /\ writer' = [writer EXCEPT !.pc = IF writer.op = "Remove"
                                       THEN "Unlock" ELSE "Set:113"]
    /\ UNCHANGED <<circle, members, sortedHashes, NumberOfReplicas, capacity>>
    /\ UnderLock

\* Set, lines 113-124: the range yields a member k not yet seen, in any order
\* (a member removed on the way was seen before); remove(k) is called when k
\* is not found in elements. When the range is over the second loop starts.
SetRange ==
    /\ writer.pc = "Set:113"
    /\ \/ /\ writer.todo = {}
          /\ writer' = [writer EXCEPT !.pc = "Set:125"]
       \/ \E k \in writer.todo :
              writer' = IF found(k, writer.arg)
                        THEN [writer EXCEPT !.todo = @ \ {k}]
                        ELSE [writer EXCEPT !.todo = @ \ {k}, !.el = k, !.i = 0,
                                            !.pc = "remove:100"]
    /\ UNCHANGED <<circle, members, sortedHashes, NumberOfReplicas, count, capacity>>
    /\ UnderLock

\* Set, lines 125-131: the element at index j is skipped when it is a member
\* and added when it is not; past the last one Set returns to its deferred
\* Unlock.
SetElements ==
    /\ writer.pc = "Set:125"
    /\ writer' = IF writer.j > Len(writer.arg)
                 THEN [writer EXCEPT !.pc = "Unlock"]
                 ELSE IF writer.arg[writer.j] \in members
                 THEN [writer EXCEPT !.j = @ + 1]
                 ELSE [writer EXCEPT !.el = writer.arg[writer.j], !.i = 0,
                                     !.pc = "add:83"]
    /\ UNCHANGED <<circle, members, sortedHashes, NumberOfReplicas, count, capacity>>
    /\ UnderLock

\* defer c.Unlock()
Unlock ==
    /\ writer.pc = "Unlock"
    /\ mutex' = [mutex EXCEPT !.w = FALSE]
    /\ writer' = [pc |-> "idle"]
    /\ before' = Nil
    /\ UNCHANGED <<circle, members, sortedHashes, NumberOfReplicas, count>>
    /\ UNCHANGED <<handles, ret, reader, capacity>>

\* The calls of the reader threads.
Calls ==
    {[op |-> "Members"]}
      \cup {[op |-> op, name |-> name] : op \in {"Get", "GetTwo"}, name \in Keys}
      \cup {[op |-> "GetN", name |-> name, n |-> MaxN] : name \in Keys}

\* What a call gives on the ring c.
Answer(c, call) ==
    CASE call.op = "Members" -> [ends |-> Returns, out |-> Members(c)]
      [] call.op = "Get" -> Get(c, call.name)
      [] call.op = "GetTwo" -> GetTwo(c, call.name)
      [] call.op = "GetN" -> GetN(c, call.name, call.n)

\* c.RLock() with a slip: it does not wait for the writer.
RLockIgnoresWriter(r, call) ==
    /\ reader[r].pc = "idle"
    /\ mutex' = [mutex EXCEPT !.r = @ \cup {r}]
    /\ reader' = [reader EXCEPT ![r] = [pc |-> "RLock", call |-> call]]
    /\ UNCHANGED <<circle, members, sortedHashes, NumberOfReplicas, count>>
    /\ UNCHANGED <<handles, ret, writer, capacity, before>>

\* c.RLock() at the start of a query: taken when the mutex is not write-locked.
RLock(r, call) ==
    /\ reader[r].pc = "idle"
    /\ ~mutex.w
    /\ mutex' = [mutex EXCEPT !.r = @ \cup {r}]
    /\ reader' = [reader EXCEPT ![r] = [pc |-> "RLock", call |-> call]]
    /\ UNCHANGED <<circle, members, sortedHashes, NumberOfReplicas, count>>
    /\ UNCHANGED <<handles, ret, writer, capacity, before>>

\* The body of the query with a slip: a GetN stores its n in c.count.
RBodyStoresCount(r) ==
    /\ reader[r].pc = "RLock"
    /\ reader' = [reader EXCEPT ![r] = [pc |-> "RUnlock", call |-> reader[r].call,
                                        out |-> Answer(Self, reader[r].call)]]
    /\ count' = IF reader[r].call.op = "GetN" THEN reader[r].call.n ELSE count
    /\ UNCHANGED <<circle, members, sortedHashes, NumberOfReplicas>>
    /\ UNCHANGED <<handles, ret, mutex, writer, capacity, before>>

\* The body of the query, on the ring as it is while the reader runs.
RBody(r) ==
    /\ reader[r].pc = "RLock"
    /\ reader' = [reader EXCEPT ![r] = [pc |-> "RUnlock", call |-> reader[r].call,
                                        out |-> Answer(Self, reader[r].call)]]
    /\ UNCHANGED <<circle, members, sortedHashes, NumberOfReplicas, count>>
    /\ UNCHANGED <<handles, ret, mutex, writer, capacity, before>>

\* defer c.RUnlock(): run when the body returns or panics, and never when the
\* body does not end.
RUnlock(r) ==
    /\ reader[r].pc = "RUnlock"
    /\ reader[r].out.ends # Never
    /\ mutex' = [mutex EXCEPT !.r = @ \ {r}]
    /\ reader' = [reader EXCEPT ![r] = [pc |-> "idle"]]
    /\ UNCHANGED <<circle, members, sortedHashes, NumberOfReplicas, count>>
    /\ UNCHANGED <<handles, ret, writer, capacity, before>>

NextRW ==
    \/ \E element \in handles : AddLock(element)
    \/ \E element \in handles : RemoveLock(element)
    \/ \E elements \in Lists : SetLock(elements)
    \/ addReplica
    \/ addMember
    \/ addUpdateSortedHashes
    \/ addCount
    \/ removeReplica
    \/ removeMember
    \/ removeUpdateSortedHashes
    \/ removeCount
    \/ SetRange
    \/ SetElements
    \/ Unlock
    \/ \E r \in Readers, call \in Calls : RLock(r, call)
    \/ \E r \in Readers : RBody(r)
    \/ \E r \in Readers : RUnlock(r)

SpecRW == InitRW /\ [][NextRW]_vars

\* The ring the writer's whole call makes of the ring c.
Whole(c, w) ==
    CASE w.op = "Add" -> add(c, w.arg)
      [] w.op = "Remove" -> remove(c, w.arg)
      [] w.op = "Set" -> setLoops(c, w.arg)

\* ------------------------------------------------------------- collisions

\* The ring positions of an element's replicas.
Positions(element, replicas) ==
    { hashKey(elementKey(element, i)) : i \in 0 .. (replicas - 1) }

\* No two distinct handles of S have a replica position in common.
CollisionFree(S, replicas) ==
    \A x \in S, y \in S :
        x # y => Positions(x, replicas) \cap Positions(y, replicas) = {}

\* --------------------------------------------------------------------- C1

\* C1 (as stated): whenever the membership set is non-empty, Get(key) returns
\* for every key a node of the membership set and never ErrEmptyCircle.
C1_GetReturnsMember ==
    members # {} =>
        \A name \in Keys :
            /\ Get(Self, name).ends = Returns
            /\ Get(Self, name).err = Nil
            /\ Get(Self, name).elem \in members

\* C1 (amended): the same, provided no two distinct handles the caller passes
\* to Add, Remove or Set have a replica position in common.
C1_GetReturnsMemberNoCollision ==
    (CollisionFree(handles, NumberOfReplicas) /\ members # {}) =>
        \A name \in Keys :
            /\ Get(Self, name).ends = Returns
            /\ Get(Self, name).err = Nil
            /\ Get(Self, name).elem \in members

\* Get has just returned a member of a ring of two nodes, after Add and Remove
\* calls that were not all of new and of registered nodes (the count is off),
\* by a caller whose handles do not collide.
C1_Witness ==
    /\ ret.op = "Get"
    /\ ret.out.err = Nil
    /\ ret.out.elem \in members
    /\ Cardinality(members) = 2
    /\ count # 2
    /\ CollisionFree(handles, NumberOfReplicas)

\* --------------------------------------------------------------------- C2

\* C2: whenever no node is registered, Get, GetTwo and GetN return
\* ErrEmptyCircle and no node.
C2_EmptyRingFails ==
    members = {} =>
        \A name \in Keys :
            /\ Get(Self, name) =
                   [ends |-> Returns, elem |-> Nil, err |-> ErrEmptyCircle]
            /\ GetTwo(Self, name) =
                   [ends |-> Returns, a |-> Nil, b |-> Nil, err |-> ErrEmptyCircle]
            /\ \A n \in 0 .. MaxN :
                   GetN(Self, name, n) =
                       [ends |-> Returns, res |-> <<>>, err |-> ErrEmptyCircle]

\* GetN has just failed with ErrEmptyCircle on a ring that is empty again after
\* a node was added twice and removed once (the count is 1).
C2_Witness ==
    /\ members = {}
    /\ count = 1
    /\ ret.op = "GetN"
    /\ ret.out.err = ErrEmptyCircle
    /\ ret.out.res = <<>>

\* --------------------------------------------------------------------- C3

\* C3: for every key, GetTwo returns two different nodes when at least two
\* nodes are registered, and the one node with a nil second result and no
\* error when exactly one is. (Stated for the callers whose handles do not
\* collide: the claim fails there already.)
C3_GetTwoDistinct ==
    CollisionFree(handles, NumberOfReplicas) =>
    \A name \in Keys :
        LET r == GetTwo(Self, name)
        IN  /\ Cardinality(members) >= 2 =>
                 /\ r.ends = Returns
                 /\ r.err = Nil
                 /\ r.a # Nil /\ r.b # Nil /\ r.a # r.b
            /\ Cardinality(members) = 1 =>
                 /\ r.ends = Returns
                 /\ r.err = Nil
                 /\ r.a \in members /\ r.b = Nil

\* --------------------------------------------------------------------- C4

\* The smaller of two integers.
Min(x, y) == IF x < y THEN x ELSE y

\* C4: on a non-empty ring, for every key and n >= 1, GetN returns exactly
\* min(n, number of registered nodes) pairwise distinct nodes, the first being
\* Get(key); with n at least the number of registered nodes, all of them.
\* (Stated for the callers whose handles do not collide: the claim fails there
\* already.)
C4_GetNExact ==
    (CollisionFree(handles, NumberOfReplicas) /\ members # {}) =>
        \A name \in Keys, n \in 1 .. MaxN :
            LET r == GetN(Self, name, n)
            IN  /\ r.ends = Returns
                /\ r.err = Nil
                /\ Len(r.res) = Min(n, Cardinality(members))
                /\ \A i, j \in 1 .. Len(r.res) : i # j => r.res[i] # r.res[j]
                /\ r.res[1] = Get(Self, name).elem
                /\ n >= Cardinality(members) => Handles(r.res) = members

\* --------------------------------------------------------------------- C5

\* b is registered, and none of its replica positions is a replica position of
\* another registered node.
SharesNoPosition(b) ==
    \A x \in members \ {b} :
        Positions(x, NumberOfReplicas) \cap Positions(b, NumberOfReplicas) = {}

\* C5 (as stated): for every registered node b and key, if Get returned a node
\* other than b before Remove(b), it returns the same node after it.
C5_RemoveKeepsOthers ==
    \A b \in members, name \in Keys :
        (Get(Self, name).err = Nil /\ Get(Self, name).elem # b) =>
            Get(remove(Self, b), name) = Get(Self, name)

\* C5 (amended): the same for every registered node b that shares no replica
\* position with another registered node.
C5_RemoveKeepsOthersNoCollision ==
    \A b \in members, name \in Keys :
        (/\ SharesNoPosition(b)
         /\ Get(Self, name).err = Nil
         /\ Get(Self, name).elem # b) =>
            Get(remove(Self, b), name) = Get(Self, name)

\* Three nodes are registered; b shares no position with the others, one key
\* maps to b and moves when b is removed, another maps to another node and stays.
C5_Witness ==
    /\ Cardinality(members) = 3
    /\ \E b \in members, k1 \in Keys, k2 \in Keys :
         /\ SharesNoPosition(b)
         /\ Get(Self, k1).elem = b
         /\ Get(remove(Self, b), k1).elem \in members \ {b}
         /\ Get(Self, k2).elem \in members \ {b}
         /\ Get(remove(Self, b), k2) = Get(Self, k2)
         /\ ENABLED Remove(b)

\* --------------------------------------------------------------------- C6

\* C6: after Set(elements), Members() is exactly the set of the handles in the
\* list, whatever the ring held before and whatever the list (empty, or with
\* a handle repeated): in the state Set has just produced, and for every Set
\* that can be called next.
C6_SetMakesMembership ==
    /\ ret.op = "Set" => Members(Self) = Handles(ret.elements)
    /\ \A elements \in Lists :
           Members(setLoops(Self, elements)) = Handles(elements)

\* Set([cacheA, sPdNr]) has just run and left exactly {cacheA, sPdNr};
\* Set([cacheA, cacheB]) called next removes sPdNr, adds cacheB and keeps
\* cacheA, and Set([cacheB, cacheB]) called next leaves exactly {cacheB}.
C6_Witness ==
    /\ ret.op = "Set"
    /\ ret.elements = <<"cacheA", "sPdNr">>
    /\ Members(Self) = {"cacheA", "sPdNr"}
    /\ LET c == setLoops(Self, <<"cacheA", "cacheB">>)
       IN  /\ Members(c) = {"cacheA", "cacheB"}
           /\ \A p \in Positions("cacheA", NumberOfReplicas) :
                  Lookup(c.circle, p) = "cacheA"
           /\ \A p \in Positions("sPdNr", NumberOfReplicas) :
                  p \notin DOMAIN c.circle
    /\ Members(setLoops(Self, <<"cacheB", "cacheB">>)) = {"cacheB"}
    /\ ENABLED Set(<<"cacheA", "cacheB">>)

\* --------------------------------------------------------------------- C7

\* C7: Remove(x) of a node x that is not registered leaves the membership set,
\* the position table, the count and the results of Get, GetTwo and GetN
\* unchanged. (Stated for the callers whose handles do not collide: the claim
\* fails there already.)
C7_RemoveAbsentChangesNothing ==
    CollisionFree(handles, NumberOfReplicas) =>
    \A x \in handles \ members :
        LET c == remove(Self, x)
        IN  /\ c.members = members
            /\ c.circle = circle
            /\ c.sortedHashes = sortedHashes
            /\ c.count = count
            /\ \A name \in Keys :
                   /\ Get(c, name) = Get(Self, name)
                   /\ GetTwo(c, name) = GetTwo(Self, name)
                   /\ \A n \in 0 .. MaxN : GetN(c, name, n) = GetN(Self, name, n)

\* --------------------------------------------------------------------- C8

\* C8: the count equals the size of the membership set, and adding a
\* registered node again does not change it. (Stated for the callers whose
\* handles do not collide: the claim fails there already.)
C8_CountIsMembershipSize ==
    CollisionFree(handles, NumberOfReplicas) =>
        /\ count = Cardinality(members)
        /\ \A x \in members : add(Self, x).count = count

\* --------------------------------------------------------------------- C9

\* p is a smaller uint32 than q.
Precedes(p, q) == p[1] < q[1] \/ (p[1] = q[1] /\ p[2] < q[2])

\* The least position of a non-empty set of positions.
Least(S) == CHOOSE p \in S : \A q \in S : ~Precedes(q, p)

\* The node at the least position of S, or at the least occupied position
\* when S is empty.
OwnerOfFirst(S) ==
    IF S # {} THEN circle[Least(S)] ELSE circle[Least(DOMAIN circle)]

\* C9 (as stated): on a ring with an occupied position, Get(key) returns the
\* node at the least occupied position p >= hash(key), or at the least
\* occupied position when there is none.
C9_GetFirstAtOrAfter ==
    DOMAIN circle # {} =>
        \A name \in Keys :
            Get(Self, name) =
                [ends |-> Returns, err |-> Nil,
                 elem |-> OwnerOfFirst({ p \in DOMAIN circle :
                                           ~Precedes(p, hashKey(name)) })]

\* C9 (amended): on a ring with an occupied position, Get(key) returns the
\* node at the least occupied position p > hash(key), or at the least occupied
\* position when there is none; a key whose hash is an occupied position maps
\* to the node at the next position.
C9_GetFirstAfter ==
    DOMAIN circle # {} =>
        \A name \in Keys :
            Get(Self, name) =
                [ends |-> Returns, err |-> Nil,
                 elem |-> OwnerOfFirst({ p \in DOMAIN circle :
                                           Precedes(hashKey(name), p) })]

\* Get has just been called with a key whose hash is an occupied position,
\* which is the greatest one, and has returned the node at the least position,
\* another node than the one at hash(key).
C9_Witness ==
    /\ ret.op = "Get"
    /\ hashKey(ret.name) \in DOMAIN circle
    /\ \A p \in DOMAIN circle : ~Precedes(hashKey(ret.name), p)
    /\ ret.out.elem = circle[Least(DOMAIN circle)]
    /\ ret.out.elem # circle[hashKey(ret.name)]

\* -------------------------------------------------------------------- C10

\* C10: every call of GetTwo(key) and GetN(key, n) returns. (Stated for the
\* callers whose handles do not collide: the claim fails there already.)
C10_WalksReturn ==
    CollisionFree(handles, NumberOfReplicas) =>
    \A name \in Keys :
        /\ GetTwo(Self, name).ends # Never
        /\ \A n \in 0 .. MaxN : GetN(Self, name, n).ends # Never

\* -------------------------------------------------------------------- C11

\* The sorted cache of c holds exactly the keys of its position table.
CacheIsKeySet(c) ==
    /\ Len(c.sortedHashes) = Cardinality(DOMAIN c.circle)
    /\ { c.sortedHashes[x] : x \in 1 .. Len(c.sortedHashes) } = DOMAIN c.circle

\* While a reader is inside a query no mutation is under way, the cache is the
\* key set of the table, and what the reader got is the query's answer on the
\* ring as it stands; and the ring the writer unlocks is what its whole call
\* makes of the ring it locked. So a reader sees the ring before or after a
\* whole mutation.
ReadersSeeWholeMutations ==
    /\ \A r \in Readers :
         reader[r].pc # "idle" =>
             /\ writer.pc = "idle"
             /\ mutex.w = FALSE
             /\ CacheIsKeySet(Self)
             /\ reader[r].pc = "RUnlock" =>
                    reader[r].out = Answer(Self, reader[r].call)
    /\ writer.pc = "Unlock" => Self = Whole(before, writer)

\* Around a Set that replaces a non-empty membership by the handles of a
\* non-empty list: the Get a reader has run before it, and any Get on the ring
\* after it, gives a node of one of the two memberships and not ErrEmptyCircle.
GetAroundSet ==
    /\ \A r \in Readers :
         (/\ reader[r].pc = "RUnlock"
          /\ reader[r].call.op = "Get"
          /\ members # {}) =>
             \A elements \in Lists :
                 Handles(elements) # {} =>
                     /\ reader[r].out.err # ErrEmptyCircle
                     /\ reader[r].out.elem \in members \cup Handles(elements)
    /\ (/\ writer.pc = "idle"
        /\ \A r \in Readers : reader[r].pc = "idle"
        /\ members # {}) =>
           \A elements \in Lists, name \in Keys :
               Handles(elements) # {} =>
                   LET got == Get(setLoops(Self, elements), name)
                   IN  /\ got.err # ErrEmptyCircle
                       /\ got.elem \in members \cup Handles(elements)

\* C11 (as stated): a query running concurrently with Add, Remove or Set sees
\* the ring before or after the whole mutation and a cache equal to the
\* table's key set; a Get concurrent with a Set from a non-empty to a
\* non-empty membership returns a node of one of the two, never ErrEmptyCircle.
C11_ReadersSeeWholeMutations ==
    ReadersSeeWholeMutations /\ GetAroundSet

\* C11 (amended): the same, the part about Get and Set provided no two
\* distinct handles of the caller have a replica position in common.
C11_ReadersSeeWholeMutationsNoCollision ==
    /\ ReadersSeeWholeMutations
    /\ CollisionFree(handles, NumberOfReplicas) => GetAroundSet

\* A Set that replaces a non-empty membership by a non-empty list has removed
\* its nodes and put the replicas of a new one in the table; the cache is not
\* rebuilt yet, and no reader can take the read lock now.
C11_Witness ==
    /\ writer.pc = "add:87"
    /\ writer.op = "Set"
    /\ before.members # {}
    /\ before.members \cap Handles(writer.arg) = {}
    /\ ~CacheIsKeySet(Self)
    /\ CollisionFree(handles, NumberOfReplicas)
    /\ \A r \in Readers, call \in Calls : ~ENABLED RLock(r, call)

\* -------------------------------------------------------------------- C12

\* C12: on a ring with a registered node, Get, GetTwo and GetN return, with no
\* error, for every key and every integer n (here n from -1 to MaxN). (Stated
\* for the callers whose handles do not collide: the claim fails there
\* already.)
C12_OnlyEmptyRingFails ==
    (CollisionFree(handles, NumberOfReplicas) /\ members # {}) =>
        \A name \in Keys :
            /\ Get(Self, name).ends = Returns
            /\ Get(Self, name).err = Nil
            /\ GetTwo(Self, name).ends = Returns
            /\ GetTwo(Self, name).err = Nil
            /\ \A n \in (-1) .. MaxN :
                   /\ GetN(Self, name, n).ends = Returns
                   /\ GetN(Self, name, n).err = Nil

\* -------------------------------------------------------------------- C13

\* C13: a step of a reader thread changes no field of the ring, whatever the
\* other reader is doing, so the ring changes only in the writer's steps; and
\* two readers that are inside the same query at the same time (no Add, Remove
\* or Set is between them) have got the same answer, which is the answer the
\* query gives now.
C13_ReadersChangeNothing ==
    /\ [][writer' = writer =>
            UNCHANGED <<circle, members, sortedHashes, NumberOfReplicas, count>>]_vars
    /\ [](\A r1 \in Readers, r2 \in Readers :
            (/\ reader[r1].pc = "RUnlock"
             /\ reader[r2].pc = "RUnlock"
             /\ reader[r1].call = reader[r2].call) =>
                /\ reader[r1].out = reader[r2].out
                /\ reader[r1].out = Answer(Self, reader[r1].call))

\* Both readers hold the read lock and have run Get for the same key, one
\* after the other, on a ring of two nodes; both got the same node.
C13_Witness ==
    /\ reader["r1"].pc = "RUnlock"
    /\ reader["r2"].pc = "RUnlock"
    /\ reader["r1"].call.op = "Get"
    /\ reader["r2"].call = reader["r1"].call
    /\ reader["r1"].out.elem \in members
    /\ reader["r2"].out.elem = reader["r1"].out.elem
    /\ Cardinality(members) = 2

\* -------------------------------------------------------------------- C14

\* Each element of s is a smaller uint32 than the next.
StrictlyAscending(s) == \A x \in 1 .. (Len(s) - 1) : Precedes(s[x], s[x + 1])

\* C14: when Add, Remove or Set has completed, the sorted cache is strictly
\* ascending and holds exactly the keys of the position table, as many as the
\* table has, whatever became of its storage in the rebuilds of the call.
C14_CacheSortedAfterMutation ==
    writer.pc \in {"idle", "Unlock"} =>
        /\ StrictlyAscending(sortedHashes)
        /\ CacheIsKeySet(Self)
        /\ Len(sortedHashes) <= capacity

\* A Set has completed in which the cache was rebuilt in place, rebuilt in a
\* new storage after the table ran empty, and rebuilt by appends that outgrew
\* the storage; it holds the positions of the one node Set added.
C14_Witness ==
    /\ writer.pc = "Unlock"
    /\ writer.op = "Set"
    /\ writer.rebuilds = {"in place", "reallocated", "grown"}
    /\ Len(sortedHashes) = NumberOfReplicas
    /\ Cardinality(before.members) >= 2

\* -------------------------------------------------------------------- C15

\* Every replica position of x is a key of the position table.
AllPositionsPresent(x) == Positions(x, NumberOfReplicas) \subseteq DOMAIN circle

\* C15 (as stated): a node is in the membership set if and only if all its
\* NumberOfReplicas positions are in the position table.
C15_MemberIffPositions ==
    \A x \in handles : x \in members <=> AllPositionsPresent(x)

\* C15 (amended): the same for the handles of a caller no two of whose
\* distinct handles have a replica position in common.
C15_MemberIffPositionsNoCollision ==
    CollisionFree(handles, NumberOfReplicas) =>
        \A x \in handles : x \in members <=> AllPositionsPresent(x)

\* A Set has just removed a node and added another: two nodes are registered
\* with all their positions, and a third that was removed has none; the
\* caller's handles do not collide.
C15_Witness ==
    /\ ret.op = "Set"
    /\ Cardinality(members) = 2
    /\ members = Handles(ret.elements)
    /\ \E x \in handles \ members :
           Positions(x, NumberOfReplicas) \cap DOMAIN circle = {}
    /\ Cardinality(DOMAIN circle) = 2 * NumberOfReplicas
    /\ count = 2
    /\ CollisionFree(handles, NumberOfReplicas)

\* -------------------------------------------------------------------- C16

\* C16: every entry of the position table names a node of the membership set,
\* at a position that is the hash of one of that node's replica keys; so no
\* entry is left for a node that has been removed.
C16_EntriesNameMembers ==
    \A p \in DOMAIN circle :
        /\ circle[p] \in members
        /\ p \in Positions(circle[p], NumberOfReplicas)

\* Two nodes that have a replica position in common are registered, and one
\* of them can be removed: Remove would take entries out of the table and
\* leave some, all of them naming the other node.
C16_Witness ==
    /\ Cardinality(members) = 2
    /\ \E x \in members, y \in members :
         /\ x # y
         /\ Positions(x, NumberOfReplicas) \cap Positions(y, NumberOfReplicas) # {}
         /\ ENABLED Remove(x)
         /\ LET c == remove(Self, x)
            IN  /\ DOMAIN c.circle # {}
                /\ DOMAIN c.circle # DOMAIN circle
                /\ \A p \in DOMAIN c.circle : c.circle[p] = y

\* -------------------------------------------------------------------- C17

\* C17: on a ring with a registered node, the list GetN(key, n) returns has at
\* most n elements for every n >= 0, none for n = 0. (Stated for the callers
\* whose handles do not collide: the claim fails there already.)
C17_GetNAtMostN ==
    (CollisionFree(handles, NumberOfReplicas) /\ members # {}) =>
        \A name \in Keys, n \in 0 .. MaxN :
            GetN(Self, name, n).ends = Returns =>
                Len(GetN(Self, name, n).res) <= n

\* -------------------------------------------------------------------- C18

\* C18: with at least two registered nodes, for every key the pair GetTwo
\* returns is the two-element list GetN(key, 2) returns, and its first node is
\* Get(key). (Stated for the callers whose handles do not collide: the claim
\* fails there already.)
C18_GetTwoIsGetNOfTwo ==
    (CollisionFree(handles, NumberOfReplicas) /\ Cardinality(members) >= 2) =>
        \A name \in Keys :
            /\ GetTwo(Self, name).ends = Returns
            /\ GetN(Self, name, 2).ends = Returns
            /\ GetN(Self, name, 2).res =
                   <<GetTwo(Self, name).a, GetTwo(Self, name).b>>
            /\ GetTwo(Self, name).a = Get(Self, name).elem

\* -------------------------------------------------------------------- C19

\* C19: for every node D that is not registered and every key, Get after
\* Add(D) returns D or the node it returned before the Add.
C19_AddMovesKeysToNewNodeOnly ==
    \A D \in handles \ members, name \in Keys :
        LET got == Get(add(Self, D), name)
        IN  /\ got.ends = Returns
            /\ got.err = Nil
            /\ \/ got.elem = D
               \/ got = Get(Self, name)

\* Two nodes are registered and a third can be added; one key would move to
\* the new node, another would stay with the registered node it maps to.
C19_Witness ==
    /\ Cardinality(members) = 2
    /\ \E D \in handles \ members, k1 \in Keys, k2 \in Keys :
         /\ ENABLED Add(D)
         /\ Get(Self, k1).elem \in members
         /\ Get(add(Self, D), k1).elem = D
         /\ Get(Self, k2).elem \in members
         /\ Get(add(Self, D), k2) = Get(Self, k2)

\* -------------------------------------------------------------------- C20

\* No replica position of x is a replica position of a registered node.
MeetsNoMember(x) ==
    \A y \in members \ {x} :
        Positions(x, NumberOfReplicas) \cap Positions(y, NumberOfReplicas) = {}

\* C20 (as stated): for every node x that is not registered, Add(x) and then
\* Remove(x) leave the position table, the membership set, the count and the
\* contents of the sorted cache as they were.
C20_AddRemoveRestores ==
    \A x \in handles \ members :
        LET c == remove(add(Self, x), x)
        IN  /\ c.circle = circle
            /\ c.members = members
            /\ c.count = count
            /\ c.sortedHashes = sortedHashes

\* C20 (amended): the same for every node x that is not registered and has no
\* replica position in common with a registered node.
C20_AddRemoveRestoresNoCollision ==
    \A x \in handles \ members :
        MeetsNoMember(x) =>
            LET c == remove(add(Self, x), x)
            IN  /\ c.circle = circle
                /\ c.members = members
                /\ c.count = count
                /\ c.sortedHashes = sortedHashes

\* Two nodes are registered, the count is off, and a third node that meets
\* neither of them can be added: Add would put its positions in the table and
\* in the cache, and Remove would take them out again.
C20_Witness ==
    /\ Cardinality(members) = 2
    /\ count # 2
    /\ \E x \in handles \ members :
         /\ MeetsNoMember(x)
         /\ ENABLED Add(x)
         /\ Cardinality(DOMAIN add(Self, x).circle) =
                Cardinality(DOMAIN circle) + NumberOfReplicas
         /\ add(Self, x).sortedHashes # sortedHashes
         /\ remove(add(Self, x), x).sortedHashes = sortedHashes

====
